---- MODULE Spec2Model ----
(***************************************************************************)
(* Model of the websocket client of ws/client.go: the Client, its          *)
(* reconnection loop (handleReconnection), Stop, the error channel and the *)
(* callbacks bound into the Session.  The Session (type webSocket) lives   *)
(* in a file that is not part of the sources at hand; the few operations   *)
(* of it the client relies on are modelled from the written specification. *)
(*                                                                         *)
(* Goroutines: task 0 is the caller of Start / StartWithRetries, tasks     *)
(* 1..MaxSessions are the Session tasks that deliver a Session's           *)
(* disconnect notification (and then run handleReconnection on the same    *)
(* goroutine), and Stop runs on a goroutine of its own (stopPc), so that   *)
(* it can be issued while StartWithRetries blocks.                         *)
(***************************************************************************)
EXTENDS Integers, Sequences, FiniteSets, TLC

\* Sessions a run may create (successful dials).
MaxSessions == 2

\* Largest value of reconnectionAttempts a reconnect loop may reach.
MaxAttempts == 2

\* Calls of Start, StartWithRetries and Stop the caller issues in a run.
MaxCalls == 3

\* Calls of Write the caller issues in a run.
MaxWrites == 2

\* Largest value of reconnectionAttempts where the back-off is followed.
MaxRetries == 5

\* Calls of SetRequestedSubProtocol issued in a run.
MaxOptions == 4

\* Inbound messages a Session handles.
MaxMessages == 2

\* The message handler at the time of a message: none set, one that
\* returns nil, one that returns an error.
Handlers == {"none", "ok", "fails"}

\* The subprotocols the caller asks for.
SubProtocols == {"ocpp1.6", "ocpp2.0", "ocpp2.0.1"}

Sessions == 1..MaxSessions

User == 0

Tasks == {User} \cup Sessions

\* The sides of a Session that detect a transport error.
Detectors == {"reader", "writer"}

\* Timeout configurations the client is started with (seconds).  The delay of
\* a sleep is at least one second, so a select that is entered never finds
\* its timer ready.
TimeoutConfigs ==
    {[RetryBackOffWaitMinimum |-> 1, RetryBackOffRandomRange |-> 0, RetryBackOffRepeatTimes |-> 2]}

\* Timeout configurations for the back-off: minimum wait, random range and
\* repeat times are varied.
BackoffConfigs ==
    [RetryBackOffWaitMinimum : {1, 2}, RetryBackOffRandomRange : {0, 1},
     RetryBackOffRepeatTimes : {1, 2, 3}]

VARIABLES
    webSocket,        \* c.webSocket: 0 (nil) or the Session last installed
    sess,             \* Session state: closed flag, first error, detections
    pc,               \* position of each task
    attempts,         \* reconnectionAttempts of the loop run by each task
    delay,            \* delay of the loop run by each task
    stopPc,           \* position of the goroutine running Stop
    reconnectC,       \* number of values buffered in c.reconnectC (0 or 1)
    errC,             \* c.errC: "nil", "empty", "full" or "closed"
    onDisconnected,   \* whether the disconnected handler is set
    onReconnected,    \* whether the reconnected handler is set
    timeoutConfig,    \* c.timeoutConfig
    started,          \* the caller started the client and did not stop it since
    notified,         \* per Session: the errors passed to handleDisconnect
    discCalls,        \* per Session: invocations of the disconnected handler
    stopOnConnected,  \* a Stop call found the client connected (since last Start)
    stopOnLoop,       \* a Stop call found a loop sleeping or dialing (since last Start)
    calls,            \* calls of Start, StartWithRetries and Stop issued so far
    writes,           \* the Write calls issued so far, with what each returned
    dialOptions,      \* c.dialOptions: the subprotocol of each option added
    dialer,           \* Subprotocols of the dialer built by the last c.Start
    sendOnClosed      \* a send on the closed error channel was attempted (panic)

vars ==
    <<webSocket, sess, pc, attempts, delay, stopPc, reconnectC, errC,
      onDisconnected, onReconnected, timeoutConfig, started, notified,
      discCalls, stopOnConnected, stopOnLoop, calls, writes, dialOptions,
      dialer, sendOnClosed>>

cfgVars ==
    <<onDisconnected, onReconnected, timeoutConfig, dialOptions>>

callVars ==
    <<stopOnConnected, stopOnLoop, calls, writes>>

discVars ==
    <<notified, discCalls>>

\* A send on a closed channel panics: the program is gone.
Alive ==
    ~sendOnClosed

----------------------------------------------------------------------------
\* The Session, from the written specification.

NoSession ==
    [closed |-> FALSE, closeErr |-> "none", detected |-> {}, queue |-> <<>>, wire |-> <<>>,
     inbound |-> <<>>]

Created ==
    {s \in Sessions : pc[s] # "none"}

\* isConnected(): the closed flag is false.
WsIsConnected(s) ==
    ~sess[s].closed

\* The closed flag goes false -> true once; the winner records the error.
WsMarkClosed(s, err) ==
    [sess EXCEPT ![s].closed = TRUE, ![s].closeErr = err]

\* The Session delivered its notification and is discarded: its tasks are
\* gone, what was queued and not sent is dropped, only the closed flag and
\* the recorded error are left.
WsDiscard(s) ==
    [sess EXCEPT ![s].detected = {}, ![s].queue = <<>>, ![s].wire = <<>>,
                 ![s].inbound = <<>>]

\* The Session after its closing task has entered the notification: it is
\* discarded once the disconnected handler, if any, has returned.
WsNotified(s) ==
    IF onDisconnected THEN sess ELSE WsDiscard(s)

----------------------------------------------------------------------------
\* client.IsConnected

IsConnected ==
    IF webSocket = 0 THEN FALSE ELSE WsIsConnected(webSocket)

\* client.error: c.errC <- err when the channel exists.  The send blocks
\* while the buffer is full and panics on a closed channel.
CanSendError ==
    errC # "full"

SendError ==
    /\ errC' = (IF errC = "empty" THEN "full" ELSE errC)
    /\ sendOnClosed' = (errC = "closed")

----------------------------------------------------------------------------
\* SetRequestedSubProtocol and the dialer of Start

\* The option with the test for a duplicate left out.
SubProtocolOptionAlwaysAppends(subProto, protos) ==
    Append(protos, subProto)

\* The option SetRequestedSubProtocol(subProto) adds, applied to a dialer
\* whose Subprotocols are protos.
SubProtocolOption(subProto, protos) ==
    IF \E i \in 1..Len(protos) : protos[i] = subProto
    THEN protos
    ELSE Append(protos, subProto)

RECURSIVE ApplyOptions(_, _)
ApplyOptions(options, protos) ==
    IF options = <<>>
    THEN protos
    ELSE ApplyOptions(Tail(options), SubProtocolOption(Head(options), protos))

\* Start: a new dialer with no subprotocol, every option applied in order.
BuildDialer ==
    ApplyOptions(dialOptions, <<>>)

SetRequestedSubProtocol(subProto) ==
    /\ Alive
    /\ Len(dialOptions) < MaxOptions
    /\ dialOptions' = Append(dialOptions, subProto)
    /\ UNCHANGED <<webSocket, sess, pc, attempts, delay, stopPc, reconnectC, errC,
                   onDisconnected, onReconnected, timeoutConfig, dialer, started,
                   discVars, callVars, sendOnClosed>>

----------------------------------------------------------------------------
\* handleReconnection

InitialDelay(jitter) ==
    timeoutConfig.RetryBackOffWaitMinimum + jitter

NextDelayOffByOne(d, n, jitter) ==
    IF n <= timeoutConfig.RetryBackOffRepeatTimes THEN 2 * d + jitter ELSE d

NextDelay(d, n, jitter) ==
    IF n < timeoutConfig.RetryBackOffRepeatTimes THEN 2 * d + jitter ELSE d

Jitter ==
    0..timeoutConfig.RetryBackOffRandomRange

\* The select at the top of the loop, entered by task t with delay d and
\* attempt counter n: a pending interrupt is received at once, otherwise
\* the task blocks on the timer and on c.reconnectC.
WaitBeforeReconnecting(t, d, n) ==
    IF reconnectC = 1
    THEN /\ reconnectC' = 0
         /\ pc' = [pc EXCEPT ![t] = "aborted"]
         /\ attempts' = [attempts EXCEPT ![t] = 0]
         /\ delay' = [delay EXCEPT ![t] = 0]
    ELSE /\ reconnectC' = reconnectC
         /\ pc' = [pc EXCEPT ![t] = "sleeping"]
         /\ attempts' = [attempts EXCEPT ![t] = n]
         /\ delay' = [delay EXCEPT ![t] = d]

\* Entry of handleReconnection on task t.
handleReconnection(t) ==
    \E jitter \in Jitter : WaitBeforeReconnecting(t, InitialDelay(jitter), 1)

Sleepers ==
    {t \in Tasks : pc[t] = "sleeping"}

\* The timer of the select fires: the loop goes on to c.Start.
TimerFires(t) ==
    /\ Alive
    /\ pc[t] = "sleeping"
    /\ pc' = [pc EXCEPT ![t] = "dialing"]
    /\ dialer' = BuildDialer
    /\ UNCHANGED <<webSocket, sess, attempts, delay, stopPc, reconnectC, errC,
                   cfgVars, started, discVars, callVars, sendOnClosed>>

\* c.Start after a successful dial: the new Session is installed in
\* c.webSocket and run.  The state of task t after the call is next.
InstallSession(t, next) ==
    LET id == Cardinality(Created) + 1 IN
    /\ id \in Sessions
    /\ webSocket' = id
    /\ sess' = [sess EXCEPT ![id] = NoSession]
    /\ pc' = [pc EXCEPT ![t] = next, ![id] = "running"]

\* The dial of a reconnect attempt succeeds.
ReconnectOK(t) ==
    /\ Alive
    /\ pc[t] = "dialing"
    /\ InstallSession(t, IF onReconnected THEN "rec_cb" ELSE "succeeded")
    /\ attempts' = [attempts EXCEPT ![t] = 0]
    /\ delay' = [delay EXCEPT ![t] = 0]
    /\ UNCHANGED <<stopPc, reconnectC, errC, cfgVars, dialer, started, discVars,
                   callVars, sendOnClosed>>

\* The reconnected handler returns.
ReconnectedReturns(t) ==
    /\ Alive
    /\ pc[t] = "rec_cb"
    /\ pc' = [pc EXCEPT ![t] = "succeeded"]
    /\ UNCHANGED <<webSocket, sess, attempts, delay, stopPc, reconnectC, errC,
                   cfgVars, dialer, started, discVars, callVars, sendOnClosed>>

\* A failed attempt goes on: c.error(reconnection failed), the back-off,
\* the counter and the next select.
FailedAttempt(t) ==
    /\ SendError
    /\ IF errC = "closed"
       THEN /\ pc' = [pc EXCEPT ![t] = "report_fail"]
            /\ UNCHANGED <<attempts, delay, reconnectC>>
       ELSE \E jitter \in Jitter :
                WaitBeforeReconnecting(t, NextDelay(delay[t], attempts[t], jitter),
                                       attempts[t] + 1)

\* The dial of a reconnect attempt fails: Start returns the error, which is
\* reported at once unless the error channel is full; then the send blocks.
ReconnectFailsUpTo(t, max) ==
    /\ Alive
    /\ pc[t] = "dialing"
    /\ attempts[t] < max
    /\ IF CanSendError
       THEN FailedAttempt(t)
       ELSE /\ pc' = [pc EXCEPT ![t] = "report_fail"]
            /\ UNCHANGED <<attempts, delay, reconnectC, errC, sendOnClosed>>
    /\ UNCHANGED <<webSocket, sess, stopPc, cfgVars, dialer, started, discVars, callVars>>

ReconnectFails(t) ==
    ReconnectFailsUpTo(t, MaxAttempts)

\* The blocked send of c.error goes through and the loop goes on.
ReportReconnectFailure(t) ==
    /\ Alive
    /\ pc[t] = "report_fail"
    /\ CanSendError
    /\ FailedAttempt(t)
    /\ UNCHANGED <<webSocket, sess, stopPc, cfgVars, dialer, started, discVars, callVars>>

----------------------------------------------------------------------------
\* Init: the client as NewClient returns it, with its handlers set and its
\* timeout configuration one of configs.

InitWith(configs) ==
    /\ webSocket = 0
    /\ sess = [s \in Sessions |-> NoSession]
    /\ pc = [t \in Tasks |-> IF t = User THEN "idle" ELSE "none"]
    /\ attempts = [t \in Tasks |-> 0]
    /\ delay = [t \in Tasks |-> 0]
    /\ stopPc = "idle"
    /\ reconnectC = 0
    /\ errC = "nil"
    /\ onDisconnected \in BOOLEAN
    /\ onReconnected \in BOOLEAN
    /\ timeoutConfig \in configs
    /\ started = FALSE
    /\ notified = [s \in Sessions |-> <<>>]
    /\ discCalls = [s \in Sessions |-> 0]
    /\ stopOnConnected = FALSE
    /\ stopOnLoop = FALSE
    /\ calls = 0
    /\ writes = <<>>
    /\ dialOptions = <<>>
    /\ dialer = <<>>
    /\ sendOnClosed = FALSE

Init ==
    InitWith(TimeoutConfigs)

----------------------------------------------------------------------------
\* Callbacks bound into the Session: handleDisconnect and the error callback.

\* handleDisconnect going on to reconnect whatever the error is.
AfterDisconnectedAlwaysReconnects(s, err) ==
    handleReconnection(s)

\* What handleDisconnect does once the disconnected handler is through.
AfterDisconnected(s, err) ==
    IF err # "nil"
    THEN handleReconnection(s)
    ELSE /\ pc' = [pc EXCEPT ![s] = "done"]
         /\ UNCHANGED <<attempts, delay, reconnectC>>

\* handleDisconnect with the handler left out for a nil error.
handleDisconnectSilentOnNil(s, err) ==
    /\ notified' = [notified EXCEPT ![s] = Append(@, err)]
    /\ IF onDisconnected /\ err # "nil"
       THEN /\ discCalls' = [discCalls EXCEPT ![s] = @ + 1]
            /\ pc' = [pc EXCEPT ![s] = "disc_cb"]
            /\ UNCHANGED <<attempts, delay, reconnectC>>
       ELSE /\ discCalls' = discCalls
            /\ AfterDisconnected(s, err)

\* handleDisconnect with the reconnection started before the handler is
\* notified of a forced disconnect.
handleDisconnectReconnectsFirst(s, err) ==
    /\ notified' = [notified EXCEPT ![s] = Append(@, err)]
    /\ IF onDisconnected /\ err = "nil"
       THEN /\ discCalls' = [discCalls EXCEPT ![s] = @ + 1]
            /\ pc' = [pc EXCEPT ![s] = "disc_cb"]
            /\ UNCHANGED <<attempts, delay, reconnectC>>
       ELSE /\ discCalls' = discCalls
            /\ AfterDisconnected(s, err)

\* Entry of handleDisconnect on the task of Session s.
handleDisconnect(s, err) ==
    /\ notified' = [notified EXCEPT ![s] = Append(@, err)]
    /\ IF onDisconnected
       THEN /\ discCalls' = [discCalls EXCEPT ![s] = @ + 1]
            /\ pc' = [pc EXCEPT ![s] = "disc_cb"]
            /\ UNCHANGED <<attempts, delay, reconnectC>>
       ELSE /\ discCalls' = discCalls
            /\ AfterDisconnected(s, err)

\* The disconnected handler returns and handleDisconnect goes on.
DisconnectedReturns(s) ==
    /\ Alive
    /\ pc[s] = "disc_cb"
    /\ AfterDisconnected(s, notified[s][Len(notified[s])])
    /\ sess' = WsDiscard(s)
    /\ UNCHANGED <<webSocket, stopPc, errC, cfgVars, dialer, started, discVars,
                   callVars, sendOnClosed>>

\* The reader or the writer of a live Session detects a transport error: it
\* marks the Session closed and goes on to report the error.
DetectError(s, who) ==
    /\ Alive
    /\ pc[s] = "running"
    /\ WsIsConnected(s)
    /\ sess' = [WsMarkClosed(s, who) EXCEPT ![s].detected = @ \cup {who}]
    /\ pc' = [pc EXCEPT ![s] = "report"]
    /\ UNCHANGED <<webSocket, attempts, delay, stopPc, reconnectC, errC, cfgVars, dialer,
                   started, discVars, callVars, sendOnClosed>>

\* The other side detects its error at the same moment: the Session is
\* marked closed already and its closing task is not through with the
\* notification yet.
DetectErrorLate(s, who) ==
    /\ Alive
    /\ pc[s] \in {"report", "notify", "disc_cb"}
    /\ ~WsIsConnected(s)
    /\ who \notin sess[s].detected
    /\ sess' = [sess EXCEPT ![s].detected = @ \cup {who}]
    /\ UNCHANGED <<webSocket, pc, attempts, delay, stopPc, reconnectC, errC,
                   cfgVars, dialer, started, discVars, callVars, sendOnClosed>>

\* The error callback given to newWebSocket, c.error(err), and then the
\* disconnect notification of the Session closed by that error.
ReportSessionError(s) ==
    /\ Alive
    /\ pc[s] = "report"
    /\ CanSendError
    /\ SendError
    /\ IF errC = "closed"
       THEN UNCHANGED <<sess, pc, attempts, delay, reconnectC, discVars>>
       ELSE /\ handleDisconnect(s, sess[s].closeErr)
            /\ sess' = WsNotified(s)
    /\ UNCHANGED <<webSocket, stopPc, cfgVars, dialer, started, callVars>>

\* The Session closed by Close delivers its disconnect notification.
NotifyDisconnect(s) ==
    /\ Alive
    /\ pc[s] = "notify"
    /\ handleDisconnect(s, sess[s].closeErr)
    /\ sess' = WsNotified(s)
    /\ UNCHANGED <<webSocket, stopPc, errC, cfgVars, dialer, started, callVars,
                   sendOnClosed>>

----------------------------------------------------------------------------
\* The caller: Errors, Start, StartWithRetries.

\* Errors() creates the channel; the caller does so before a first Session
\* exists (creating it later is documented as unsupported).

Errors ==
    /\ Alive
    /\ pc[User] = "idle"
    /\ Created = {}
    /\ errC = "nil"
    /\ errC' = "empty"
    /\ UNCHANGED <<webSocket, sess, pc, attempts, delay, stopPc, reconnectC,
                   cfgVars, dialer, started, discVars, callVars, sendOnClosed>>

\* The caller receives the error the channel holds.
ReadError ==
    /\ Alive
    /\ errC = "full"
    /\ errC' = "empty"
    /\ UNCHANGED <<webSocket, sess, pc, attempts, delay, stopPc, reconnectC,
                   cfgVars, dialer, started, discVars, callVars, sendOnClosed>>

\* The caller, who has not started the client (or has stopped it), calls
\* Start (retry = FALSE) or StartWithRetries (retry = TRUE): the dial begins.
StartCall(retry) ==
    /\ Alive
    /\ pc[User] = "idle"
    /\ stopPc = "idle"
    /\ calls < MaxCalls
    /\ calls' = calls + 1
    /\ pc' = [pc EXCEPT ![User] = IF retry THEN "swr_dial" ELSE "start_dial"]
    /\ stopOnConnected' = FALSE
    /\ stopOnLoop' = FALSE
    /\ dialer' = BuildDialer
    /\ UNCHANGED <<webSocket, sess, attempts, delay, stopPc, reconnectC, errC,
                   cfgVars, started, discVars, writes, sendOnClosed>>

StartBegin(retry) ==
    /\ ~started
    /\ StartCall(retry)

\* The caller calls Start or StartWithRetries on a client that is started
\* already; Start does not look at c.webSocket before it dials.
StartAgain(retry) ==
    /\ started
    /\ StartCall(retry)

StartOK ==
    /\ Alive
    /\ pc[User] \in {"start_dial", "swr_dial"}
    /\ InstallSession(User, "idle")
    /\ started' = TRUE
    /\ UNCHANGED <<attempts, delay, stopPc, reconnectC, errC, cfgVars, dialer, discVars,
                   callVars, sendOnClosed>>

StartFails ==
    /\ Alive
    /\ pc[User] = "start_dial"
    /\ pc' = [pc EXCEPT ![User] = "idle"]
    /\ UNCHANGED <<webSocket, sess, attempts, delay, stopPc, reconnectC, errC,
                   cfgVars, dialer, started, discVars, callVars, sendOnClosed>>

\* StartWithRetries: Start failed, the caller enters handleReconnection.
StartWithRetriesFails ==
    /\ Alive
    /\ pc[User] = "swr_dial"
    /\ handleReconnection(User)
    /\ UNCHANGED <<webSocket, sess, stopPc, errC, cfgVars, dialer, started, discVars,
                   callVars, sendOnClosed>>

\* handleReconnection returns to StartWithRetries, which returns.
StartWithRetriesReturns ==
    /\ Alive
    /\ pc[User] \in {"aborted", "succeeded"}
    /\ pc' = [pc EXCEPT ![User] = "idle"]
    /\ started' = (pc[User] = "succeeded")
    /\ UNCHANGED <<webSocket, sess, attempts, delay, stopPc, reconnectC, errC,
                   cfgVars, dialer, discVars, callVars, sendOnClosed>>

----------------------------------------------------------------------------
\* Stop, one step per access to shared state.

\* Close(normal closure) on Session s.  A live Session is marked closed with
\* a nil error and delivers its notification asynchronously; on a Session
\* that is closed already the call changes nothing and may return an error.
WsClose(s, result) ==
    IF WsIsConnected(s)
    THEN /\ result = "nil"
         /\ sess' = WsMarkClosed(s, "nil")
         /\ pc' = [pc EXCEPT ![s] = "notify"]
    ELSE /\ result \in {"nil", "err"}
         /\ UNCHANGED <<sess, pc>>

StopBegin ==
    /\ Alive
    /\ stopPc = "idle"
    /\ pc[User] \notin {"start_dial", "swr_dial"}
    /\ calls < MaxCalls
    /\ calls' = calls + 1
    /\ stopPc' = IF IsConnected THEN "close" ELSE "interrupt"
    /\ started' = FALSE
    /\ stopOnConnected' = (stopOnConnected \/ IsConnected)
    /\ stopOnLoop' = (stopOnLoop \/ \E t \in Tasks : pc[t] \in {"sleeping", "dialing"})
    /\ UNCHANGED <<webSocket, sess, pc, attempts, delay, reconnectC, errC, cfgVars, dialer,
                   discVars, writes, sendOnClosed>>

StopClose ==
    /\ Alive
    /\ stopPc = "close"
    /\ \E result \in {"nil", "err"} :
           /\ WsClose(webSocket, result)
           /\ stopPc' = IF result = "nil" THEN "interrupt" ELSE "close_err"
    /\ UNCHANGED <<webSocket, attempts, delay, reconnectC, errC, cfgVars, dialer, started,
                   discVars, callVars, sendOnClosed>>

StopReportsCloseError ==
    /\ Alive
    /\ stopPc = "close_err"
    /\ CanSendError
    /\ SendError
    /\ stopPc' = IF errC = "closed" THEN stopPc ELSE "interrupt"
    /\ UNCHANGED <<webSocket, sess, pc, attempts, delay, reconnectC, cfgVars, dialer,
                   started, discVars, callVars>>

\* The select on c.reconnectC with the send of its default branch left out.
NotifyReconnectionWithoutSend ==
    /\ reconnectC' = 0
    /\ UNCHANGED <<pc, attempts, delay>>

\* The select on c.reconnectC: a buffered value is received; otherwise a
\* value is sent, which a loop blocked in its select receives directly.
NotifyReconnection ==
    IF reconnectC = 1
    THEN /\ reconnectC' = 0
         /\ UNCHANGED <<pc, attempts, delay>>
    ELSE IF Sleepers # {}
         THEN /\ \E t \in Sleepers :
                     /\ pc' = [pc EXCEPT ![t] = "aborted"]
                     /\ attempts' = [attempts EXCEPT ![t] = 0]
                     /\ delay' = [delay EXCEPT ![t] = 0]
              /\ reconnectC' = reconnectC
         ELSE /\ reconnectC' = 1
              /\ UNCHANGED <<pc, attempts, delay>>

StopInterrupt ==
    /\ Alive
    /\ stopPc = "interrupt"
    /\ NotifyReconnection
    /\ stopPc' = "errc"
    /\ UNCHANGED <<webSocket, sess, errC, cfgVars, dialer, started, discVars, callVars,
                   sendOnClosed>>

\* The channel closed whenever it exists, without the select.
CloseErrorChannelUnchecked ==
    CASE errC = "nil" -> "nil"
      [] errC = "closed" -> "closed twice"
      [] OTHER -> "closed"

\* The select on c.errC: a receive that succeeds (a buffered error, or a
\* closed channel) ends Stop; otherwise the channel, if any, is closed.
CloseErrorChannel ==
    CASE errC = "full" -> "empty"
      [] errC = "empty" -> "closed"
      [] OTHER -> errC

StopCloseErrors ==
    /\ Alive
    /\ stopPc = "errc"
    /\ errC' = CloseErrorChannel
    /\ stopPc' = "idle"
    /\ UNCHANGED <<webSocket, sess, pc, attempts, delay, reconnectC, cfgVars, dialer,
                   started, discVars, callVars, sendOnClosed>>

----------------------------------------------------------------------------
\* Write, and the writer task of the Session (from the written
\* specification).  Messages are numbered in the order of the Write calls.

\* What the client is when Write is called.
Situation ==
    IF webSocket = 0 THEN "unstarted"
    ELSE IF WsIsConnected(webSocket) THEN "live"
    ELSE IF \E t \in Tasks : pc[t] \in {"sleeping", "dialing"} THEN "reconnecting"
    ELSE IF sess[webSocket].closeErr = "nil" THEN "stopped"
    ELSE "failed"

\* A Write call is past its test of IsConnected and has not returned.
WritePending ==
    IF writes = <<>> THEN FALSE ELSE writes[Len(writes)].result = "checked"

\* write(bytes) of the Session: the message is put at the end of the queue.
WsWriteAtFront(s, m) ==
    [sess EXCEPT ![s].queue = <<m>> \o @]

WsWrite(s, m) ==
    [sess EXCEPT ![s].queue = Append(@, m)]

\* Write without the test of IsConnected.
WriteWithoutCheck ==
    /\ Len(writes) < MaxWrites
    /\ writes' = Append(writes, [at |-> Situation, result |-> "checked"])

\* Write up to its test of IsConnected: not connected, it returns the error.
WriteCheck ==
    /\ Len(writes) < MaxWrites
    /\ writes' = Append(writes, [at |-> Situation,
                                 result |-> IF IsConnected THEN "checked"
                                            ELSE "NotConnected"])

WriteBegin ==
    /\ Alive
    /\ ~WritePending
    /\ WriteCheck
    /\ UNCHANGED <<webSocket, sess, pc, attempts, delay, stopPc, reconnectC, errC,
                   cfgVars, dialer, started, discVars, stopOnConnected, stopOnLoop, calls,
                   sendOnClosed>>

\* c.webSocket.Write(data): the Session takes the message unless it is closed.
WriteEnqueue ==
    /\ Alive
    /\ WritePending
    /\ webSocket # 0
    /\ IF WsIsConnected(webSocket)
       THEN /\ sess' = WsWrite(webSocket, Len(writes))
            /\ writes' = [writes EXCEPT ![Len(writes)].result = "ok"]
       ELSE /\ sess' = sess
            /\ writes' = [writes EXCEPT ![Len(writes)].result = "NotConnected"]
    /\ UNCHANGED <<webSocket, pc, attempts, delay, stopPc, reconnectC, errC,
                   cfgVars, dialer, started, discVars, stopOnConnected, stopOnLoop, calls,
                   sendOnClosed>>

\* The writer task puts the next queued message on the wire; after Close it
\* may still drain what is queued.
WriterSends(s) ==
    /\ Alive
    /\ pc[s] \in {"running", "notify"}
    /\ sess[s].queue # <<>>
    /\ sess' = [sess EXCEPT ![s].wire = Append(@, Head(sess[s].queue)),
                            ![s].queue = Tail(@)]
    /\ UNCHANGED <<webSocket, pc, attempts, delay, stopPc, reconnectC, errC,
                   cfgVars, dialer, started, discVars, callVars, sendOnClosed>>

----------------------------------------------------------------------------
\* Inbound messages: handleMessage, called by the reader task of the
\* Session, which reports a non-nil result through its error callback
\* (from the written specification) and goes on reading.

\* What handleMessage returns.
handleMessage(handler) ==
    IF handler # "none"
    THEN (IF handler = "fails" THEN "error" ELSE "nil")
    ELSE "error"

HandleMessage(s, handler) ==
    /\ Alive
    /\ pc[s] = "running"
    /\ WsIsConnected(s)
    /\ Len(sess[s].inbound) < MaxMessages
    /\ sess' = [sess EXCEPT ![s].inbound = Append(@, handleMessage(handler))]
    /\ IF handleMessage(handler) = "nil"
       THEN UNCHANGED <<errC, sendOnClosed>>
       ELSE CanSendError /\ SendError
    /\ UNCHANGED <<webSocket, pc, attempts, delay, stopPc, reconnectC, cfgVars,
                   dialer, started, discVars, callVars>>

----------------------------------------------------------------------------

Next ==
    \/ \E t \in Tasks : TimerFires(t)
    \/ \E t \in Tasks : ReconnectOK(t)
    \/ \E t \in Tasks : ReconnectedReturns(t)
    \/ \E t \in Tasks : ReconnectFails(t)
    \/ \E t \in Tasks : ReportReconnectFailure(t)
    \/ \E s \in Sessions : DisconnectedReturns(s)
    \/ \E s \in Sessions, who \in Detectors : DetectError(s, who)
    \/ \E s \in Sessions, who \in Detectors : DetectErrorLate(s, who)
    \/ \E s \in Sessions : ReportSessionError(s)
    \/ \E s \in Sessions : NotifyDisconnect(s)
    \/ Errors
    \/ ReadError
    \/ \E retry \in BOOLEAN : StartBegin(retry)
    \/ StartOK
    \/ StartFails
    \/ StartWithRetriesFails
    \/ StartWithRetriesReturns
    \/ StopBegin
    \/ StopClose
    \/ StopReportsCloseError
    \/ StopInterrupt
    \/ StopCloseErrors

Spec ==
    Init /\ [][Next]_vars

\* The client with a caller that also writes.  No handler is set and the
\* error channel is not created (Errors is not called), so no report ever
\* blocks; the caller connects with Start.
InitWrite ==
    /\ Init
    /\ ~onDisconnected
    /\ ~onReconnected

NextWrite ==
    \/ WriteBegin
    \/ WriteEnqueue
    \/ \E s \in Sessions : WriterSends(s)
    \/ \E t \in Tasks : TimerFires(t)
    \/ \E t \in Tasks : ReconnectOK(t)
    \/ \E t \in Tasks : ReconnectFails(t)
    \/ \E s \in Sessions, who \in Detectors : DetectError(s, who)
    \/ \E s \in Sessions : ReportSessionError(s)
    \/ \E s \in Sessions : NotifyDisconnect(s)
    \/ StartBegin(FALSE)
    \/ StartOK
    \/ StartFails
    \/ StopBegin
    \/ StopClose
    \/ StopReportsCloseError
    \/ StopInterrupt
    \/ StopCloseErrors

WriteSpec ==
    InitWrite /\ [][NextWrite]_vars

\* The reconnect loop followed over more attempts and under several timeout
\* configurations: the loop entered by StartWithRetries and the loop of a
\* lost Session, with no Stop and no error channel.
InitBackoff ==
    InitWith(BackoffConfigs)

NextBackoff ==
    \/ StartBegin(TRUE)
    \/ StartOK
    \/ StartWithRetriesFails
    \/ StartWithRetriesReturns
    \/ \E t \in Tasks : TimerFires(t)
    \/ \E t \in Tasks : ReconnectFailsUpTo(t, MaxRetries)
    \/ \E t \in Tasks : ReconnectOK(t)
    \/ \E t \in Tasks : ReconnectedReturns(t)
    \/ \E s \in Sessions : DetectError(s, "reader")
    \/ \E s \in Sessions : ReportSessionError(s)
    \/ \E s \in Sessions : DisconnectedReturns(s)

BackoffSpec ==
    InitBackoff /\ [][NextBackoff]_vars

\* The client with a caller who may also start a client that is started.
NextRestart ==
    \/ Next
    \/ \E retry \in BOOLEAN : StartAgain(retry)

RestartSpec ==
    Init /\ [][NextRestart]_vars

\* The client with Sessions that receive messages.
NextMessage ==
    \/ Next
    \/ \E s \in Sessions, handler \in Handlers : HandleMessage(s, handler)

MessageSpec ==
    Init /\ [][NextMessage]_vars

\* The caller asks for subprotocols and starts the client.
NextDialer ==
    \/ \E subProto \in SubProtocols : SetRequestedSubProtocol(subProto)
    \/ StartBegin(FALSE)
    \/ StartFails
    \/ StartOK

DialerSpec ==
    Init /\ [][NextDialer]_vars

----------------------------------------------------------------------------
\* Properties.

\* Positions of a task inside handleReconnection, and after it.
LoopStates ==
    {"sleeping", "dialing", "report_fail", "rec_cb", "succeeded", "aborted"}

\* C1: once a Stop call has found the client connected, the reconnected
\* handler is not invoked any more (until the caller starts the client
\* again): no task enters onReconnected.
C1_NoReconnectedAfterStop ==
    [][stopOnConnected =>
         \A t \in Tasks : pc'[t] = "rec_cb" => pc[t] = "rec_cb"]_vars

\* C2: when Stop was called while a reconnect loop was sleeping or dialing,
\* the client is not connected once Stop has returned, as long as the caller
\* does not start it again.
C2_NoSessionAfterStop ==
    (stopOnLoop /\ stopPc = "idle") => ~IsConnected

C5_NoHandlerOnStop ==
    \A s \in Sessions : notified[s] = <<"nil">> => discCalls[s] = 0

\* C6: while the reconnect loop of a lost Session is sleeping or dialing,
\* IsConnected is false.
C6_NotConnectedWhileReconnecting ==
    \A s \in Sessions :
        pc[s] \in {"sleeping", "dialing", "report_fail"} => ~IsConnected

C8_CallbacksNotConcurrent ==
    ~(\E s, t \in Tasks : pc[s] = "disc_cb" /\ pc[t] = "rec_cb")

\* C9: when Stop reaches the end with an error channel that exists and is
\* not closed, the channel is closed when Stop returns.
C9_StopClosesErrors ==
    [][(stopPc = "errc" /\ stopPc' = "idle" /\ errC \in {"empty", "full"}) =>
           errC' = "closed"]_vars

\* C10: no send on the closed error channel is ever attempted.
C10_NoSendAfterClose ==
    ~sendOnClosed

\* C11: reporting an error never blocks: no task is at the send of
\* c.error (the Session's error callback, the reconnect loop after a failed
\* dial, Stop after a failed Close) while the error channel is full.
C11_ErrorSendNeverBlocks ==
    errC = "full" =>
        /\ \A t \in Tasks : pc[t] \notin {"report", "report_fail"}
        /\ stopPc # "close_err"

\* C12: a Write issued while the client has no live Session (never started,
\* stopped, Session lost, reconnect loop in progress) returns the
\* not-connected error; and no queue grows in a step taken while the client
\* is not connected, nor does the queue of a closed Session.
C12_WriteNotConnected ==
    /\ [](\A i \in 1..Len(writes) :
            writes[i].at # "live" => writes[i].result = "NotConnected")
    /\ [][\A s \in Sessions :
            (~IsConnected \/ ~WsIsConnected(s)) =>
                Len(sess'[s].queue) <= Len(sess[s].queue)]_vars

\* One Write rejected while the reconnect loop is in progress and one
\* rejected after Stop; nothing was queued.
C12_Witness ==
    /\ Len(writes) = 2
    /\ {writes[i].at : i \in 1..2} = {"reconnecting", "stopped"}
    /\ \A i \in 1..2 : writes[i].result = "NotConnected"
    /\ \A s \in Sessions : sess[s].queue = <<>> /\ sess[s].wire = <<>>

\* C13: on every Session the messages sent and the messages still queued
\* are in the order of the Write calls that were accepted; the queue grows
\* only by the message of the Write call in progress, at its end, and
\* shrinks only at its head, by the writer task moving that message onto the
\* wire (or when the Session is discarded).
C13_WriteOrder ==
    /\ [](\A s \in Sessions :
            LET all == sess[s].wire \o sess[s].queue IN
            \A i, j \in 1..Len(all) : i < j => all[i] < all[j])
    /\ [][\A s \in Sessions :
            \/ /\ sess'[s].wire = sess[s].wire
               /\ sess'[s].queue = sess[s].queue
            \/ /\ sess'[s].wire = sess[s].wire
               /\ WritePending
               /\ sess'[s].queue = Append(sess[s].queue, Len(writes))
               /\ writes'[Len(writes)].result = "ok"
            \/ /\ sess[s].queue # <<>>
               /\ sess'[s].wire = Append(sess[s].wire, Head(sess[s].queue))
               /\ sess'[s].queue = Tail(sess[s].queue)
            \/ /\ sess'[s].wire = <<>>
               /\ sess'[s].queue = <<>>
               /\ ~WsIsConnected(s) \/ pc[s] = "none"]_vars

\* Two messages accepted on one Session and both on the wire, in order.
C13_Witness ==
    \E s \in Sessions :
        /\ sess[s].wire = <<1, 2>>
        /\ \A i \in 1..Len(writes) : writes[i].result = "ok"

\* C14: the first sleep of a loop is RetryBackOffWaitMinimum plus a jitter
\* in 0..R; the sleep before attempt k is twice the one before plus a
\* jitter while k <= RetryBackOffRepeatTimes, and the same as the one
\* before for later attempts; with minimum 1, R = 0 and repeat times 3 the
\* sleeps are 1, 2, 4 and then 4.
C14_BackoffDelays ==
    /\ [][\A t \in Tasks :
            LET R == timeoutConfig.RetryBackOffRandomRange IN
            /\ (pc'[t] = "sleeping" /\ pc[t] \notin {"sleeping", "dialing", "report_fail"}) =>
                   /\ attempts'[t] = 1
                   /\ delay'[t] - timeoutConfig.RetryBackOffWaitMinimum \in 0..R
            /\ (pc'[t] = "sleeping" /\ pc[t] \in {"dialing", "report_fail"}) =>
                   /\ attempts'[t] = attempts[t] + 1
                   /\ IF attempts'[t] <= timeoutConfig.RetryBackOffRepeatTimes
                      THEN delay'[t] - 2 * delay[t] \in 0..R
                      ELSE delay'[t] = delay[t]]_vars
    /\ [](timeoutConfig = [RetryBackOffWaitMinimum |-> 1, RetryBackOffRandomRange |-> 0,
                           RetryBackOffRepeatTimes |-> 3] =>
            \A t \in Tasks :
                pc[t] \in {"sleeping", "dialing"} =>
                    delay[t] = (CASE attempts[t] = 1 -> 1
                                  [] attempts[t] = 2 -> 2
                                  [] OTHER -> 4))

\* The fourth sleep of a loop under minimum 1, R = 0, repeat times 3: it
\* lasts 4, like the third.
C14_Witness ==
    /\ timeoutConfig = [RetryBackOffWaitMinimum |-> 1, RetryBackOffRandomRange |-> 0,
                        RetryBackOffRepeatTimes |-> 3]
    /\ \E t \in Tasks : pc[t] = "sleeping" /\ attempts[t] = 4 /\ delay[t] = 4

\* C15: the dialer a Start builds holds every subprotocol that was asked
\* for exactly once, however often it was asked for, and none that was not;
\* the subprotocols stand in the order in which each was asked for first.
C15_SubProtocolOnce ==
    [][(pc[User] = "idle" /\ pc'[User] = "start_dial") =>
          LET First(x) == CHOOSE i \in 1..Len(dialOptions) :
                              /\ dialOptions[i] = x
                              /\ \A j \in 1..(i - 1) : dialOptions[j] # x
          IN
          /\ \A x \in SubProtocols :
                 Cardinality({i \in 1..Len(dialer') : dialer'[i] = x}) =
                     (IF \E j \in 1..Len(dialOptions) : dialOptions[j] = x THEN 1 ELSE 0)
          /\ \A i, j \in 1..Len(dialer') :
                 i < j => First(dialer'[i]) < First(dialer'[j])]_vars

\* A Start after one subprotocol was asked for three times, with another in
\* between: the dialer holds each once, in the order of the first calls.
C15_Witness ==
    /\ dialOptions = <<"ocpp2.0", "ocpp1.6", "ocpp2.0", "ocpp2.0">>
    /\ dialer = <<"ocpp2.0", "ocpp1.6">>
    /\ pc[User] = "start_dial"

\* C16: the task of a Session is in the reconnect loop (or past it) exactly
\* when the Session's disconnect notification carried an error and the
\* disconnected handler has returned; after a notification with a nil error
\* (a closure by Stop) the task ends without a loop and without a dial.
C16_ReconnectIffError ==
    \A s \in Sessions :
        /\ pc[s] \in LoopStates <=>
               /\ notified[s] # <<>>
               /\ pc[s] # "disc_cb"
               /\ notified[s][1] # "nil"
        /\ notified[s] = <<"nil">> =>
               /\ sess[s].closeErr = "nil"
               /\ pc[s] \in {"disc_cb", "done"}
               /\ attempts[s] = 0

\* One Session lost to an error, whose task went through the loop and
\* reconnected, and the Session it made, closed by Stop, its task ended.
C16_Witness ==
    \E s, t \in Sessions :
        /\ notified[s] = <<"nil">>
        /\ pc[s] = "done"
        /\ notified[t] = <<"reader">>
        /\ pc[t] = "succeeded"

\* C17: at most one Session that was created is not closed.
C17_OneLiveSession ==
    Cardinality({s \in Created : WsIsConnected(s)}) <= 1

\* C18: StartWithRetries whose first dial failed blocks in the reconnect
\* loop: it does not return from the loop in the step in which it enters it,
\* when no attempt was made and no Stop was called during the call (Stop
\* is not issued while the first dial is in progress).
C18_StartWithRetriesBlocks ==
    [][pc[User] = "swr_dial" => pc'[User] # "aborted"]_vars

\* C19: c.reconnectC never holds more than one interrupt, and a Stop that
\* comes to its select on c.reconnectC while an interrupt is pending leaves
\* that interrupt pending.
C19_SecondInterruptDropped ==
    /\ [](reconnectC \in {0, 1})
    /\ [][(stopPc = "interrupt" /\ stopPc' = "errc" /\ reconnectC = 1) =>
              reconnectC' = 1]_vars

\* C20: the error channel is closed at most once: it is closed only by
\* Stop's select, and only when it is open; once closed it stays closed,
\* whatever Stop calls follow; and a channel that was never created is
\* left alone by Stop.
C20_ClosedAtMostOnce ==
    /\ [](errC \in {"nil", "empty", "full", "closed"})
    /\ [][/\ errC = "closed" => errC' = "closed"
          /\ (errC' = "closed" /\ errC # "closed") => (stopPc = "errc" /\ errC = "empty")
          /\ (errC = "nil" /\ stopPc = "errc" /\ stopPc' = "idle") => errC' = "nil"]_vars

\* Two Stop calls after one Start, the first on the connected client, both
\* returned: the channel is closed.
C20_Witness ==
    /\ errC = "closed"
    /\ stopPc = "idle"
    /\ calls = 3
    /\ stopOnConnected
    /\ reconnectC = 0
    /\ pc[User] = "idle"
    /\ Created = {1}
    /\ notified[1] = <<"nil">>

\* C21: a message for which handleMessage returns an error (no handler
\* set, or the handler fails) has its error reported and nothing else: the
\* Session is still connected, no disconnect notification is delivered,
\* its task does not leave the running state, and the program goes on.
C21_HandlerErrorKeepsSession ==
    [][\A s \in Sessions :
          Len(sess'[s].inbound) > Len(sess[s].inbound) =>
              /\ ~sess'[s].closed
              /\ notified'[s] = notified[s]
              /\ pc'[s] = "running"
              /\ attempts'[s] = 0
              /\ reconnectC' = reconnectC
              /\ (sess'[s].inbound[Len(sess'[s].inbound)] = "error" /\ errC = "empty") =>
                     errC' = "full"
              /\ ~sendOnClosed']_vars

\* C22: after a Stop that closed a connected Session and a new Start that
\* succeeded, with no Stop since, the task of a Session lost to an error
\* does not leave the reconnect loop in the step in which it enters it: it
\* sleeps its first delay.
C22_NoLeftoverInterrupt ==
    [][\A s \in Sessions :
          (/\ started
           /\ stopPc = "idle"
           /\ \E t \in Sessions : sess[t].closeErr = "nil"
           /\ pc[s] \in {"report", "disc_cb"}) =>
              pc'[s] # "aborted"]_vars

====
